---- MODULE Spec2Model ----
(***************************************************************************)
(* Scoring engine of the network-baseline assessment (scoring.py).         *)
(* score_assessment is a pure function of the answer mapping; the model    *)
(* draws an answer mapping from a bounded set and applies the function.    *)
(***************************************************************************)
EXTENDS Integers, Sequences, FiniteSets, TLC

VARIABLES answers, result, fixes, previous, pc, data, session

vars == <<answers, result, fixes, previous, pc, data, session>>

(***************************************************************************)
(* Python values.  A mapping is a function whose DOMAIN is its key set;    *)
(* None is a value of its own, distinct from every option key.             *)
(***************************************************************************)
PyNone == "<None>"

\* dict.get(key): None when the key is absent
Get(d, k) == IF k \in DOMAIN d THEN d[k] ELSE PyNone

\* dict.get(key, default)
GetDefault(d, k, default) == IF k \in DOMAIN d THEN d[k] ELSE default

(***************************************************************************)
(* IEEE-754 binary64 arithmetic, as far as `int(round(seg * multiplier))`  *)
(* needs it.  A magnitude is a sequence of bits, least significant first,  *)
(* without leading zeros; a dyadic [n, scale] denotes n * 2^(-scale).      *)
(***************************************************************************)
MantissaBits == 53

RECURSIVE ToBits(_)
ToBits(n) == IF n = 0 THEN <<>> ELSE <<n % 2>> \o ToBits(n \div 2)

RECURSIVE FromBits(_)
FromBits(b) == IF b = <<>> THEN 0 ELSE b[1] + 2 * FromBits(Tail(b))

\* b + 1
RECURSIVE IncBits(_)
IncBits(b) ==
    IF b = <<>> THEN <<1>>
    ELSE IF b[1] = 0 THEN <<1>> \o Tail(b)
    ELSE <<0>> \o IncBits(Tail(b))

\* b * n + carry, for a small natural n
RECURSIVE MulSmall(_, _, _)
MulSmall(b, n, carry) ==
    IF b = <<>> THEN ToBits(carry)
    ELSE LET t == b[1] * n + carry
         IN  <<t % 2>> \o MulSmall(Tail(b), n, t \div 2)

AnyOne(b) == \E i \in 1..Len(b) : b[i] = 1

\* drop the k low bits of b, rounding to nearest, ties to even
RoundShift(b, k) ==
    IF k = 0 THEN b
    ELSE LET kept   == SubSeq(b, k + 1, Len(b))
             half   == b[k] = 1
             sticky == AnyOne(SubSeq(b, 1, k - 1))
             odd    == kept # <<>> /\ kept[1] = 1
         IN  IF half /\ (sticky \/ odd) THEN IncBits(kept) ELSE kept

\* the binary64 nearest to an exact dyadic: at most 53 significant bits
RoundToDouble(x) ==
    LET extra == IF Len(x.n) > MantissaBits THEN Len(x.n) - MantissaBits ELSE 0
    IN  [n |-> RoundShift(x.n, extra), scale |-> x.scale - extra]

\* fraction bits of r/den (0 <= r < den), most significant generated first
RECURSIVE LongDiv(_, _, _, _)
LongDiv(r, den, k, acc) ==
    IF k = 0 THEN [bits |-> acc, rem |-> r]
    ELSE LET b == IF 2 * r >= den THEN 1 ELSE 0
         IN  LongDiv(2 * r - b * den, den, k - 1, <<b>> \o acc)

\* the binary64 a decimal literal num/den with 1 <= num/den < 2 parses to
FloatLiteral(num, den) ==
    LET d     == LongDiv(num - den, den, MantissaBits - 1, <<>>)
        exact == d.bits \o <<1>>
        up    == 2 * d.rem > den \/ (2 * d.rem = den /\ exact[1] = 1)
    IN  [n |-> IF up THEN IncBits(exact) ELSE exact, scale |-> MantissaBits - 1]

\* int * float: the exact product rounded to binary64
FloatMul(i, f) ==
    IF i = 0 THEN [n |-> <<>>, scale |-> 0]
    ELSE RoundToDouble([n |-> MulSmall(f.n, i, 0), scale |-> f.scale])

\* IntRound with ties rounded up instead of to even
IntRoundHalfUp(x) ==
    LET kept == SubSeq(x.n, x.scale + 1, Len(x.n))
        half == x.scale > 0 /\ x.n[x.scale] = 1
    IN  FromBits(IF half THEN IncBits(kept) ELSE kept)

\* int(round(x)) for a non-negative binary64 x with scale >= 0:
\* Python rounds to the nearest integer, ties to even
IntRound(x) == FromBits(RoundShift(x.n, x.scale))

(***************************************************************************)
(* Locked tables of scoring.py                                             *)
(***************************************************************************)
SetToFn(pairs) == [k \in {p[1] : p \in pairs} |-> (CHOOSE p \in pairs : p[1] = k)[2]]

DEVICE_MULTIPLIER ==
    SetToFn({ <<"LT_50",      FloatLiteral(1, 1)>>,
              <<"R_50_200",   FloatLiteral(11, 10)>>,
              <<"R_200_500",  FloatLiteral(125, 100)>>,
              <<"R_500_1000", FloatLiteral(15, 10)>> })

\* the fallback of DEVICE_MULTIPLIER.get(device_bucket, 1.1)
DEFAULT_MULTIPLIER == FloatLiteral(11, 10)

GATE_CAPS ==
    SetToFn({ <<"G1", 40>>, <<"G2", 50>>, <<"G3", 55>>, <<"G4", 65>>, <<"G5", 70>> })

REQUIRED_SCORED_QIDS ==
    << "C1_WAN_ADMIN_EXPOSURE",
       "C2_REMOTE_ACCESS_METHOD",
       "C3_ADMIN_MFA",
       "D1_GUEST_INTERNAL_ACCESS",
       "D2_VLAN_SEPARATION",
       "D3_IOT_WITH_FINANCE",
       "E1_CORP_WIFI_SECURITY",
       "E2_GUEST_CLIENT_ISOLATION",
       "F1_UNUSED_PORTS_RESTRICTED",
       "F2_CONFIG_BACKUPS",
       "F3_LOGGING_EXISTS",
       "F4_FIRMWARE_UPDATES" >>

DEVICE_QID == "A1_DEVICE_COUNT"

MISSING_NOTE ==
    "Some scored questions were not answered; missing/unknown responses are treated as failing controls: "

DEFAULT_BUCKET_NOTE == "Unknown device bucket; default multiplier applied (1.1x)."

(***************************************************************************)
(* Helpers of scoring.py                                                   *)
(***************************************************************************)
\* grade_from_score with exclusive lower bounds (`>` for `>=`)
grade_from_score_exclusive(score) ==
    IF score > 85 THEN "A"
    ELSE IF score > 70 THEN "B"
    ELSE IF score > 55 THEN "C"
    ELSE IF score > 40 THEN "D"
    ELSE "F"

grade_from_score(score) ==
    IF score >= 85 THEN "A"
    ELSE IF score >= 70 THEN "B"
    ELSE IF score >= 55 THEN "C"
    ELSE IF score >= 40 THEN "D"
    ELSE "F"

\* _is_not_sure without the `value is None` test
is_not_sure_string_only(value) == value = "NOT_SURE"

is_not_sure(value) == value = "NOT_SURE" \/ value = PyNone

missing_required_scored_answers(a) ==
    LET Missing(qid) == qid \notin DOMAIN a \/ Get(a, qid) = PyNone
    IN  SelectSeq(REQUIRED_SCORED_QIDS, Missing)

Min(x, y) == IF x <= y THEN x ELSE y

RECURSIVE SumPoints(_)
SumPoints(rules) ==
    IF rules = <<>> THEN 0 ELSE Head(rules).points + SumPoints(Tail(rules))

\* order-preserving removal of repeated entries (seen-set loop)
RECURSIVE Dedup(_, _)
Dedup(s, seen) ==
    IF s = <<>> THEN <<>>
    ELSE IF Head(s) \in seen THEN Dedup(Tail(s), seen)
    ELSE <<Head(s)>> \o Dedup(Tail(s), seen \cup {Head(s)})

(***************************************************************************)
(* score_assessment: gate evaluation                                       *)
(***************************************************************************)
GateResult(gate_id, reasons) ==
    [gate_id |-> gate_id, failed |-> Len(reasons) > 0,
     cap |-> GATE_CAPS[gate_id], reasons |-> reasons]

When(cond, item) == IF cond THEN <<item>> ELSE <<>>

\* G1Reasons with the port-forwarding test as an `elif` of the first test
G1ReasonsElif(a) ==
    LET c1 == Get(a, "C1_WAN_ADMIN_EXPOSURE")
        c2 == Get(a, "C2_REMOTE_ACCESS_METHOD")
    IN  IF c1 \in {"YES"} \/ is_not_sure(c1)
        THEN <<"Admin interface reachable from internet (or unknown).">>
        ELSE When(c2 = "PORT_FORWARDING",
                  "Remote access uses port forwarding/exposed services.")

\* Gate G1: Internet Exposure (C3 is a deduction, not a gate failure)
G1Reasons(a) ==
    LET c1 == Get(a, "C1_WAN_ADMIN_EXPOSURE")
        c2 == Get(a, "C2_REMOTE_ACCESS_METHOD")
    IN  When(c1 \in {"YES"} \/ is_not_sure(c1),
             "Admin interface reachable from internet (or unknown).")
        \o When(c2 = "PORT_FORWARDING",
                "Remote access uses port forwarding/exposed services.")

\* Gate G2: Guest Isolation
G2Reasons(a) ==
    LET d1 == Get(a, "D1_GUEST_INTERNAL_ACCESS")
    IN  When(d1 = "YES" \/ is_not_sure(d1),
             "Guest devices can access internal systems (or unknown).")

\* G3Reasons failing the gate on PARTIAL in place of FLAT
G3ReasonsPartial(a) ==
    LET d2 == Get(a, "D2_VLAN_SEPARATION")
    IN  When(d2 = "PARTIAL" \/ is_not_sure(d2),
             "Network is flat / not segmented (or unknown).")

\* Gate G3: No Segmentation / Flat Network
G3Reasons(a) ==
    LET d2 == Get(a, "D2_VLAN_SEPARATION")
    IN  When(d2 = "FLAT" \/ is_not_sure(d2),
             "Network is flat / not segmented (or unknown).")

\* Gate G4: No Configuration Backups
G4Reasons(a) ==
    LET f2 == Get(a, "F2_CONFIG_BACKUPS")
    IN  When(f2 = "NONE" \/ is_not_sure(f2),
             "No configuration backups (or unknown).")

\* Gate G5: No Logging / Visibility
G5Reasons(a) ==
    LET f3 == Get(a, "F3_LOGGING_EXISTS")
    IN  When(f3 = "NO" \/ is_not_sure(f3),
             "No network/firewall logging (or unknown).")

EvaluateGates(a) ==
    << GateResult("G1", G1Reasons(a)),
       GateResult("G2", G2Reasons(a)),
       GateResult("G3", G3Reasons(a)),
       GateResult("G4", G4Reasons(a)),
       GateResult("G5", G5Reasons(a)) >>

\* DetermineCap with `cap = g.cap` in place of `cap = min(cap, g.cap)`
RECURSIVE DetermineCapLastFailed(_, _)
DetermineCapLastFailed(gates, cap) ==
    IF gates = <<>> THEN cap
    ELSE DetermineCapLastFailed(Tail(gates),
                                IF Head(gates).failed THEN Head(gates).cap ELSE cap)

\* cap = 100; for g in gates: if g.failed: cap = min(cap, g.cap)
RECURSIVE DetermineCap(_, _)
DetermineCap(gates, cap) ==
    IF gates = <<>> THEN cap
    ELSE DetermineCap(Tail(gates),
                      IF Head(gates).failed THEN Min(cap, Head(gates).cap) ELSE cap)

(***************************************************************************)
(* score_assessment: deduction rules.  Each triggered `if` adds its points *)
(* to its category and appends its control identifier; the sequence keeps  *)
(* the order in which the code evaluates the rules.                        *)
(***************************************************************************)
Rule(cond, category, points, control) ==
    When(cond, [category |-> category, points |-> points, control |-> control])

\* PerimeterRules with the port-forwarding rule as an `elif` of the WAN rule
PerimeterRulesElif(a) ==
    LET c1 == Get(a, "C1_WAN_ADMIN_EXPOSURE")
        c2 == Get(a, "C2_REMOTE_ACCESS_METHOD")
        c3 == Get(a, "C3_ADMIN_MFA")
    IN  (IF c1 = "YES" \/ is_not_sure(c1)
         THEN Rule(TRUE, "perimeter", 25, "CTRL_PERIMETER_WAN_ADMIN_EXPOSURE")
         ELSE Rule(c2 = "PORT_FORWARDING",
                   "perimeter", 25, "CTRL_PERIMETER_PORT_FORWARDING"))
        \o Rule(c3 = "NO" \/ is_not_sure(c3),
                "perimeter", 10, "CTRL_IDENTITY_ADMIN_MFA")

\* Perimeter (not multiplied)
PerimeterRules(a) ==
    LET c1 == Get(a, "C1_WAN_ADMIN_EXPOSURE")
        c2 == Get(a, "C2_REMOTE_ACCESS_METHOD")
        c3 == Get(a, "C3_ADMIN_MFA")
    IN  Rule(c1 = "YES" \/ is_not_sure(c1),
             "perimeter", 25, "CTRL_PERIMETER_WAN_ADMIN_EXPOSURE")
        \o Rule(c2 = "PORT_FORWARDING",
                "perimeter", 25, "CTRL_PERIMETER_PORT_FORWARDING")
        \o Rule(c3 = "NO" \/ is_not_sure(c3),
                "perimeter", 10, "CTRL_IDENTITY_ADMIN_MFA")

\* SegmentationRules with the IoT rule written `d3 == "YES" or _is_not_sure(d3)`
SegmentationRulesIotUnknown(a) ==
    LET d1 == Get(a, "D1_GUEST_INTERNAL_ACCESS")
        d2 == Get(a, "D2_VLAN_SEPARATION")
        d3 == Get(a, "D3_IOT_WITH_FINANCE")
    IN  (IF d2 = "FLAT" \/ is_not_sure(d2)
         THEN Rule(TRUE, "segmentation", 25, "CTRL_SEGMENTATION_FLAT_NETWORK")
         ELSE Rule(d2 = "PARTIAL", "segmentation", 10, "CTRL_SEGMENTATION_PARTIAL"))
        \o Rule(d1 = "YES" \/ is_not_sure(d1),
                "none", 0, "CTRL_SEGMENTATION_GUEST_NOT_ISOLATED")
        \o Rule(d3 = "YES" \/ is_not_sure(d3),
                "segmentation", 10, "CTRL_SEGMENTATION_IOT_WITH_CRITICAL")

\* Segmentation (multiplied); guest isolation is a gate: control, no deduction
SegmentationRules(a) ==
    LET d1 == Get(a, "D1_GUEST_INTERNAL_ACCESS")
        d2 == Get(a, "D2_VLAN_SEPARATION")
        d3 == Get(a, "D3_IOT_WITH_FINANCE")
    IN  (IF d2 = "FLAT" \/ is_not_sure(d2)
         THEN Rule(TRUE, "segmentation", 25, "CTRL_SEGMENTATION_FLAT_NETWORK")
         ELSE Rule(d2 = "PARTIAL", "segmentation", 10, "CTRL_SEGMENTATION_PARTIAL"))
        \o Rule(d1 = "YES" \/ is_not_sure(d1),
                "none", 0, "CTRL_SEGMENTATION_GUEST_NOT_ISOLATED")
        \o Rule(d3 = "YES",
                "segmentation", 10, "CTRL_SEGMENTATION_IOT_WITH_CRITICAL")

\* WirelessRules with the PSK rule as an `if` of its own that also fires on
\* an unknown answer, instead of the `elif e1 == "PSK"`
WirelessRulesPskOnUnknown(a) ==
    LET e1 == Get(a, "E1_CORP_WIFI_SECURITY")
        e2 == Get(a, "E2_GUEST_CLIENT_ISOLATION")
    IN  Rule(e1 = "OPEN_OR_UNKNOWN" \/ is_not_sure(e1),
             "wireless", 15, "CTRL_WIRELESS_OPEN_OR_UNKNOWN")
        \o Rule(e1 = "PSK" \/ is_not_sure(e1),
                "wireless", 7, "CTRL_WIRELESS_PSK_ONLY")
        \o Rule(e2 = "NO" \/ is_not_sure(e2),
                "wireless", 8, "CTRL_WIRELESS_GUEST_CLIENT_ISOLATION")

\* Wireless (not multiplied)
WirelessRules(a) ==
    LET e1 == Get(a, "E1_CORP_WIFI_SECURITY")
        e2 == Get(a, "E2_GUEST_CLIENT_ISOLATION")
    IN  (IF e1 = "OPEN_OR_UNKNOWN" \/ is_not_sure(e1)
         THEN Rule(TRUE, "wireless", 15, "CTRL_WIRELESS_OPEN_OR_UNKNOWN")
         ELSE Rule(e1 = "PSK", "wireless", 7, "CTRL_WIRELESS_PSK_ONLY"))
        \o Rule(e2 = "NO" \/ is_not_sure(e2),
                "wireless", 8, "CTRL_WIRELESS_GUEST_CLIENT_ISOLATION")

\* Hygiene & Ops (not multiplied)
HygieneRules(a) ==
    LET f1 == Get(a, "F1_UNUSED_PORTS_RESTRICTED")
        f2 == Get(a, "F2_CONFIG_BACKUPS")
        f3 == Get(a, "F3_LOGGING_EXISTS")
        f4 == Get(a, "F4_FIRMWARE_UPDATES")
    IN  Rule(f1 = "NO" \/ is_not_sure(f1),
             "hygiene", 7, "CTRL_HYGIENE_UNUSED_PORTS")
        \o Rule(f2 = "NONE" \/ is_not_sure(f2),
                "hygiene", 15, "CTRL_OPERATIONS_NO_BACKUPS")
        \o Rule(f3 = "NO" \/ is_not_sure(f3),
                "hygiene", 15, "CTRL_OPERATIONS_NO_LOGGING")
        \o Rule(f4 = "RARE" \/ is_not_sure(f4),
                "hygiene", 7, "CTRL_OPERATIONS_FIRMWARE_RARE")

\* TriggeredRules with the wireless block evaluated before segmentation
TriggeredRulesWirelessFirst(a) ==
    PerimeterRules(a) \o WirelessRules(a) \o SegmentationRules(a) \o HygieneRules(a)

TriggeredRules(a) ==
    PerimeterRules(a) \o SegmentationRules(a) \o WirelessRules(a) \o HygieneRules(a)

CategoryDeduction(rules, category) ==
    LET InCategory(r) == r.category = category
    IN  SumPoints(SelectSeq(rules, InCategory))

ControlsOf(rules) == [i \in 1..Len(rules) |-> rules[i].control]

\* int(round(points * multiplier)) for every deduction 0..100 and every
\* multiplier score_assessment can select, computed once
RoundedProducts ==
    [points \in 0..100,
     multiplier \in {DEVICE_MULTIPLIER[b] : b \in DOMAIN DEVICE_MULTIPLIER}
                        \cup {DEFAULT_MULTIPLIER} |->
        IntRound(FloatMul(points, multiplier))]

\* ScaleSegmentation with int(x) in place of int(round(x))
ScaleSegmentationTruncated(segmentation_ded, multiplier) ==
    LET x == FloatMul(segmentation_ded, multiplier)
    IN  FromBits(SubSeq(x.n, x.scale + 1, Len(x.n)))

\* segmentation_scaled = int(round(segmentation_ded * multiplier))
ScaleSegmentation(segmentation_ded, multiplier) ==
    RoundedProducts[segmentation_ded, multiplier]

\* ClampScore without the `if raw_score < 0` branch
ClampScoreNoFloor(total_deductions) ==
    LET raw == 100 - total_deductions
    IN  IF raw > 100 THEN 100 ELSE raw

\* raw_score = 100 - total_deductions, clamped to 0..100
ClampScore(total_deductions) ==
    LET raw == 100 - total_deductions
    IN  IF raw < 0 THEN 0 ELSE IF raw > 100 THEN 100 ELSE raw

Note(text, ids) == [text |-> text, ids |-> ids]

ScoringNotes(a) ==
    LET missing       == missing_required_scored_answers(a)
        device_bucket == GetDefault(a, DEVICE_QID, "R_50_200")
    IN  When(missing # <<>>, Note(MISSING_NOTE, missing))
        \o When(device_bucket \notin DOMAIN DEVICE_MULTIPLIER,
                Note(DEFAULT_BUCKET_NOTE, <<>>))

\* SelectMultiplier reading a key the answers never hold
SelectMultiplierWrongKey(a) ==
    LET device_bucket == GetDefault(a, "A1_DEVICE_BUCKET", "R_50_200")
    IN  GetDefault(DEVICE_MULTIPLIER, device_bucket, DEFAULT_MULTIPLIER)

SelectMultiplier(a) ==
    LET device_bucket == GetDefault(a, DEVICE_QID, "R_50_200")
    IN  GetDefault(DEVICE_MULTIPLIER, device_bucket, DEFAULT_MULTIPLIER)

score_assessment(a) ==
    LET multiplier          == SelectMultiplier(a)
        gates               == EvaluateGates(a)
        cap                 == DetermineCap(gates, 100)
        rules               == TriggeredRules(a)
        perimeter_ded       == CategoryDeduction(rules, "perimeter")
        segmentation_ded    == CategoryDeduction(rules, "segmentation")
        wireless_ded        == CategoryDeduction(rules, "wireless")
        hygiene_ded         == CategoryDeduction(rules, "hygiene")
        segmentation_scaled == ScaleSegmentation(segmentation_ded, multiplier)
        multiplied_total    == segmentation_scaled + wireless_ded + hygiene_ded
        total_deductions    == perimeter_ded + multiplied_total
        raw_score           == ClampScore(total_deductions)
        final_score         == Min(raw_score, cap)
    IN  [ raw_score         |-> raw_score,
          cap_applied       |-> cap,
          final_score       |-> final_score,
          grade             |-> grade_from_score(final_score),
          device_multiplier |-> multiplier,
          gates             |-> gates,
          deductions        |-> [ perimeter           |-> perimeter_ded,
                                  segmentation        |-> segmentation_ded,
                                  segmentation_scaled |-> segmentation_scaled,
                                  wireless            |-> wireless_ded,
                                  hygiene             |-> hygiene_ded,
                                  multiplied_total    |-> multiplied_total,
                                  total               |-> total_deductions ],
          failed_controls   |-> Dedup(ControlsOf(rules), {}),
          notes             |-> ScoringNotes(a) ]

(***************************************************************************)
(* policy_intent.py: the fix-block library and generate_fix_blocks.  A     *)
(* FixBlock keeps severity, gate, control_id and title; its four prose     *)
(* fields (finding, policy_intent, technical_rationale, references) are    *)
(* fixed texts that asdict copies along with them.                         *)
(***************************************************************************)
FixBlock(severity, gate, control_id, title) ==
    [severity |-> severity, gate |-> gate, control_id |-> control_id, title |-> title]

CONTROL_FIX_LIBRARY ==
    LET blocks ==
          { FixBlock("critical", "G1", "CTRL_PERIMETER_WAN_ADMIN_EXPOSURE",
                     "Restrict public access to management interfaces"),
            FixBlock("critical", "G1", "CTRL_PERIMETER_PORT_FORWARDING",
                     "Remove direct internet exposure of internal services"),
            FixBlock("high", "G1", "CTRL_IDENTITY_ADMIN_MFA",
                     "Enforce MFA for administrative access"),
            FixBlock("critical", "G2", "CTRL_SEGMENTATION_GUEST_NOT_ISOLATED",
                     "Isolate guest access from internal systems"),
            FixBlock("critical", "G3", "CTRL_SEGMENTATION_FLAT_NETWORK",
                     "Implement basic network segmentation"),
            FixBlock("high", "G3", "CTRL_SEGMENTATION_PARTIAL",
                     "Strengthen segmentation boundaries"),
            FixBlock("high", PyNone, "CTRL_SEGMENTATION_IOT_WITH_CRITICAL",
                     "Contain IoT/unmanaged devices"),
            FixBlock("high", PyNone, "CTRL_WIRELESS_OPEN_OR_UNKNOWN",
                     "Use modern Wi-Fi security"),
            FixBlock("medium", PyNone, "CTRL_WIRELESS_PSK_ONLY",
                     "Harden Wi-Fi authentication and separation"),
            FixBlock("medium", PyNone, "CTRL_WIRELESS_GUEST_CLIENT_ISOLATION",
                     "Enable guest client isolation"),
            FixBlock("medium", PyNone, "CTRL_HYGIENE_UNUSED_PORTS",
                     "Restrict unused network ports"),
            FixBlock("high", "G4", "CTRL_OPERATIONS_NO_BACKUPS",
                     "Establish configuration backups"),
            FixBlock("high", "G5", "CTRL_OPERATIONS_NO_LOGGING",
                     "Enable basic logging and retention"),
            FixBlock("medium", PyNone, "CTRL_OPERATIONS_FIRMWARE_RARE",
                     "Adopt a regular update cadence") }
    IN  [cid \in {b.control_id : b \in blocks} |->
            CHOOSE b \in blocks : b.control_id = cid]

GATE_EXEC_SUMMARIES ==
    SetToFn({
      <<"G1", [title |-> "Perimeter Exposure",
               summary |-> "Public exposure of administrative interfaces or internal services materially increases compromise risk."]>>,
      <<"G2", [title |-> "Guest Isolation",
               summary |-> "Guest or untrusted devices should not have access to internal systems."]>>,
      <<"G3", [title |-> "Segmentation",
               summary |-> "Basic segmentation is required to limit lateral movement and reduce blast radius."]>>,
      <<"G4", [title |-> "Configuration Backups",
               summary |-> "Backups are necessary for recovery and operational resilience."]>>,
      <<"G5", [title |-> "Logging & Visibility",
               summary |-> "Logging is necessary for troubleshooting and incident detection."]>> })

\* `if not gid`: gid is None or the empty string
NoGateId(gid) == gid \in {PyNone, ""}

\* GateFailed testing the presence of the flag, not its value
GateFailedIfPresent(g) == "failed" \in DOMAIN g

\* `if g.get("failed")`: the flag is present and true
GateFailed(g) == "failed" \in DOMAIN g /\ g["failed"] = TRUE

\* the summary record appended for a failed gate g
GateSummary(g) ==
    LET gid  == Get(g, "gate_id")
        meta == GetDefault(GATE_EXEC_SUMMARIES, gid, [title |-> gid, summary |-> ""])
    IN  [gate_id |-> gid,
         title   |-> meta.title,
         summary |-> meta.summary,
         cap     |-> Get(g, "cap"),
         reasons |-> GetDefault(g, "reasons", <<>>)]

\* the loop over gates
RECURSIVE GateSummaries(_)
GateSummaries(gates) ==
    IF gates = <<>> THEN <<>>
    ELSE LET g == Head(gates)
         IN  (IF NoGateId(Get(g, "gate_id")) THEN <<>>
              ELSE When(GateFailed(g), GateSummary(g)))
             \o GateSummaries(Tail(gates))

\* CollectBlocks without the `if cid in seen: continue` test
RECURSIVE CollectBlocksNoSeen(_, _)
CollectBlocksNoSeen(failed_controls, seen) ==
    IF failed_controls = <<>> THEN <<>>
    ELSE LET cid == Head(failed_controls)
         IN  When(cid \in DOMAIN CONTROL_FIX_LIBRARY, CONTROL_FIX_LIBRARY[cid])
             \o CollectBlocksNoSeen(Tail(failed_controls), seen)

\* the loop over failed_controls: first occurrences that the library knows
RECURSIVE CollectBlocks(_, _)
CollectBlocks(failed_controls, seen) ==
    IF failed_controls = <<>> THEN <<>>
    ELSE LET cid == Head(failed_controls)
         IN  IF cid \in seen THEN CollectBlocks(Tail(failed_controls), seen)
             ELSE When(cid \in DOMAIN CONTROL_FIX_LIBRARY, CONTROL_FIX_LIBRARY[cid])
                  \o CollectBlocks(Tail(failed_controls), seen \cup {cid})

SEVERITY_RANK == SetToFn({ <<"critical", 0>>, <<"high", 1>>, <<"medium", 2>> })

\* the library's control identifiers in the order of Python's str comparison
ControlIdsAscending ==
    << "CTRL_HYGIENE_UNUSED_PORTS", "CTRL_IDENTITY_ADMIN_MFA",
       "CTRL_OPERATIONS_FIRMWARE_RARE", "CTRL_OPERATIONS_NO_BACKUPS",
       "CTRL_OPERATIONS_NO_LOGGING", "CTRL_PERIMETER_PORT_FORWARDING",
       "CTRL_PERIMETER_WAN_ADMIN_EXPOSURE", "CTRL_SEGMENTATION_FLAT_NETWORK",
       "CTRL_SEGMENTATION_GUEST_NOT_ISOLATED", "CTRL_SEGMENTATION_IOT_WITH_CRITICAL",
       "CTRL_SEGMENTATION_PARTIAL", "CTRL_WIRELESS_GUEST_CLIENT_ISOLATION",
       "CTRL_WIRELESS_OPEN_OR_UNKNOWN", "CTRL_WIRELESS_PSK_ONLY" >>

\* control_id x < control_id y as strings
StrLess(x, y) ==
    \E i, j \in 1..Len(ControlIdsAscending) :
        i < j /\ ControlIdsAscending[i] = x /\ ControlIdsAscending[j] = y

\* sort_key ignoring the gate: (severity_rank, 0, control_id)
sort_key_no_gate(b) ==
    << GetDefault(SEVERITY_RANK, b.severity, 3), 0, b.control_id >>

sort_key(b) ==
    LET gate_rank     == IF b.gate \in {"G1", "G2", "G3", "G4", "G5"} THEN 0 ELSE 1
        severity_rank == GetDefault(SEVERITY_RANK, b.severity, 3)
    IN  << severity_rank, gate_rank, b.control_id >>

\* tuple comparison k1 < k2
KeyLess(k1, k2) ==
    \/ k1[1] < k2[1]
    \/ k1[1] = k2[1] /\ k1[2] < k2[2]
    \/ k1[1] = k2[1] /\ k1[2] = k2[2] /\ StrLess(k1[3], k2[3])

\* b placed into the sorted list after every block whose key is not greater
RECURSIVE InsertSorted(_, _)
InsertSorted(b, sorted) ==
    IF sorted = <<>> THEN <<b>>
    ELSE IF KeyLess(sort_key(b), sort_key(Head(sorted))) THEN <<b>> \o sorted
    ELSE <<Head(sorted)>> \o InsertSorted(b, Tail(sorted))

\* Sorted leaving the blocks in input order
SortedInputOrder(blocks, acc) == acc \o blocks

\* sorted(blocks, key=sort_key): a stable sort
RECURSIVE Sorted(_, _)
Sorted(blocks, acc) ==
    IF blocks = <<>> THEN acc
    ELSE Sorted(Tail(blocks), InsertSorted(Head(blocks), acc))

\* IsCriticalOrHigh accepting the critical severity only
IsCriticalOnly(b) == b.severity = "critical"

IsCriticalOrHigh(b) == b.severity \in {"critical", "high"}

IsNotCriticalOrHigh(b) == ~IsCriticalOrHigh(b)

generate_fix_blocks(failed_controls, gates) ==
    LET blocks        == CollectBlocks(failed_controls, {})
        blocks_sorted == Sorted(blocks, <<>>)
    IN  [ gate_summaries    |-> GateSummaries(gates),
          critical_fixes    |-> SelectSeq(blocks_sorted, IsCriticalOrHigh),
          recommended_fixes |-> SelectSeq(blocks_sorted, IsNotCriticalOrHigh) ]

(***************************************************************************)
(* Inputs.  The answer mappings handed to score_assessment: the all-       *)
(* failing example of run_local_test.py, the all-passing mapping and the   *)
(* empty mapping, each with up to MaxDeviations keys set to another value  *)
(* or removed.                                                             *)
(***************************************************************************)
MaxDeviations == 2

\* a key that no rule of scoring.py reads
UNSCORED_QID == "B1_UNSCORED_QUESTION"

\* a string that is no option of any question
UNRECOGNIZED == "???"

\* marks a key to leave out of the mapping; never a value of the mapping
ABSENT == "<absent>"

ScoredQids == {REQUIRED_SCORED_QIDS[i] : i \in 1..Len(REQUIRED_SCORED_QIDS)}

AllQids == ScoredQids \cup {DEVICE_QID, UNSCORED_QID}

\* answers of run_local_test.py: every rule triggered
ALL_FAIL_ANSWERS ==
    SetToFn({ <<"A1_DEVICE_COUNT",            "R_200_500">>,
              <<"C1_WAN_ADMIN_EXPOSURE",      "YES">>,
              <<"C2_REMOTE_ACCESS_METHOD",    "PORT_FORWARDING">>,
              <<"C3_ADMIN_MFA",               "NO">>,
              <<"D1_GUEST_INTERNAL_ACCESS",   "YES">>,
              <<"D2_VLAN_SEPARATION",         "FLAT">>,
              <<"D3_IOT_WITH_FINANCE",        "YES">>,
              <<"E1_CORP_WIFI_SECURITY",      "OPEN_OR_UNKNOWN">>,
              <<"E2_GUEST_CLIENT_ISOLATION",  "NO">>,
              <<"F1_UNUSED_PORTS_RESTRICTED", "NO">>,
              <<"F2_CONFIG_BACKUPS",          "NONE">>,
              <<"F3_LOGGING_EXISTS",          "NO">>,
              <<"F4_FIRMWARE_UPDATES",        "RARE">> })

\* the question catalog's best-case option of every question
ALL_PASS_ANSWERS ==
    SetToFn({ <<"A1_DEVICE_COUNT",            "LT_50">>,
              <<"C1_WAN_ADMIN_EXPOSURE",      "NO">>,
              <<"C2_REMOTE_ACCESS_METHOD",    "VPN">>,
              <<"C3_ADMIN_MFA",               "YES">>,
              <<"D1_GUEST_INTERNAL_ACCESS",   "NO">>,
              <<"D2_VLAN_SEPARATION",         "SEGMENTED">>,
              <<"D3_IOT_WITH_FINANCE",        "NO">>,
              <<"E1_CORP_WIFI_SECURITY",      "ENTERPRISE">>,
              <<"E2_GUEST_CLIENT_ISOLATION",  "YES">>,
              <<"F1_UNUSED_PORTS_RESTRICTED", "YES">>,
              <<"F2_CONFIG_BACKUPS",          "REGULAR">>,
              <<"F3_LOGGING_EXISTS",          "YES">>,
              <<"F4_FIRMWARE_UPDATES",        "REGULAR">> })

EMPTY_ANSWERS == [q \in {} |-> PyNone]

BaseAnswers == <<ALL_PASS_ANSWERS, ALL_FAIL_ANSWERS, EMPTY_ANSWERS>>

\* the option keys of a question that the rules of scoring.py name
RuleOptions(q) ==
    IF q = DEVICE_QID THEN DOMAIN DEVICE_MULTIPLIER
    ELSE IF q = UNSCORED_QID THEN {}
    ELSE {ALL_FAIL_ANSWERS[q], "NOT_SURE"}
         \cup (IF q = "D2_VLAN_SEPARATION" THEN {"PARTIAL"} ELSE {})
         \cup (IF q = "E1_CORP_WIFI_SECURITY" THEN {"PSK"} ELSE {})

\* the option keys the catalog offers for a question
CatalogOptions(q) ==
    IF q = UNSCORED_QID THEN {"YES", "NO"}
    ELSE RuleOptions(q) \cup {ALL_PASS_ANSWERS[q]}

InputValues(q) == CatalogOptions(q) \cup {UNRECOGNIZED, PyNone, ABSENT}

\* every way to give each key of S one of its input values
RECURSIVE Choices(_)
Choices(S) ==
    IF S = {} THEN {EMPTY_ANSWERS}
    ELSE LET q == CHOOSE x \in S : TRUE
         IN  {[k \in DOMAIN g \cup {q} |-> IF k = q THEN v ELSE g[k]] :
                 g \in Choices(S \ {q}), v \in InputValues(q)}

\* base with the keys of f set to f's values, or removed where f says ABSENT
Override(base, f) ==
    LET removed == {q \in DOMAIN f : f[q] = ABSENT}
    IN  [q \in (DOMAIN base \cup DOMAIN f) \ removed |->
            IF q \in DOMAIN f THEN f[q] ELSE base[q]]

DeviationSets == {T \in SUBSET AllQids : Cardinality(T) <= MaxDeviations}

IsAnswerSet(a) ==
    \E i \in DOMAIN BaseAnswers : \E S \in DeviationSets : \E f \in Choices(S) :
        a = Override(BaseAnswers[i], f)

(***************************************************************************)
(* The caller of run_local_test.py and app.py: build the answers, score.   *)
(***************************************************************************)
NoResult == PyNone

Init ==
    /\ IsAnswerSet(answers)
    /\ result = NoResult
    /\ fixes = NoResult
    /\ previous = NoResult
    /\ data = NoResult
    /\ session = NoResult
    /\ pc = "start"

\* result = score_assessment_dict(answers)
ScoreAssessment ==
    /\ pc = "start"
    /\ result' = score_assessment(answers)
    /\ pc' = "scored"
    /\ UNCHANGED <<answers, fixes, previous, data, session>>

\* fixes = generate_fix_blocks(result["failed_controls"], result["gates"])
GenerateFixBlocks ==
    /\ pc = "scored"
    /\ fixes' = generate_fix_blocks(result.failed_controls, result.gates)
    /\ pc' = "resolved"
    /\ UNCHANGED <<answers, result, previous, data, session>>

Next == ScoreAssessment \/ GenerateFixBlocks

Spec == Init /\ [][Next]_vars

Scored == pc = "scored"

Resolved == pc = "resolved"

(***************************************************************************)
(* Properties of score_assessment                                          *)
(***************************************************************************)
\* the mapping a with key q set to v
With(a, q, v) == [k \in DOMAIN a \cup {q} |-> IF k = q THEN v ELSE a[k]]

\* q is answered NOT_SURE, mapped to None, or absent
Unknown(a, q) == Get(a, q) \in {"NOT_SURE", PyNone}

\* the worst-case option of a scored question
WorstOption(q) == ALL_FAIL_ANSWERS[q]

\* deductions, gate results and failed controls of a score breakdown
Effects(r) ==
    [deductions |-> r.deductions, gates |-> r.gates,
     failed_controls |-> r.failed_controls]

Range(s) == {s[i] : i \in 1..Len(s)}

\* C1: for every scored question answered NOT_SURE or left out, the score
\* breakdown has the deductions, gate results and failed controls it would
\* have with that question answered by its worst-case option.
C1_NotSureAsWorstCase ==
    Scored =>
        \A q \in ScoredQids :
            Unknown(answers, q) =>
                Effects(result)
                    = Effects(score_assessment(With(answers, q, WorstOption(q))))

\* C2: for every scored question whose answer is a string that is neither an
\* option of the question nor NOT_SURE, the question's control is treated as
\* failing: deductions, gates and failed controls are those of the
\* worst-case option.
C2_UnrecognizedAsWorstCase ==
    Scored =>
        \A q \in ScoredQids :
            (q \in DOMAIN answers /\ answers[q] \notin CatalogOptions(q) \cup {PyNone}) =>
                Effects(result)
                    = Effects(score_assessment(With(answers, q, WorstOption(q))))

FailedCaps(gates) == {gates[i].cap : i \in {j \in 1..Len(gates) : gates[j].failed}}

\* C3: cap_applied is the least cap among the failed gates, 100 when no gate
\* failed, and final_score <= cap_applied <= 100.
C3_CapDominance ==
    Scored =>
        /\ IF FailedCaps(result.gates) = {}
           THEN result.cap_applied = 100
           ELSE /\ result.cap_applied \in FailedCaps(result.gates)
                /\ \A c \in FailedCaps(result.gates) : result.cap_applied <= c
        /\ result.final_score <= result.cap_applied
        /\ result.cap_applied <= 100

\* C3 witness: a gate with a larger cap fails after the gate whose cap is
\* applied, and the cap lowers the score
C3_Witness ==
    /\ Scored
    /\ Cardinality(FailedCaps(result.gates)) >= 2
    /\ result.final_score < result.raw_score

\* C4: the derived fields of the breakdown: multiplied_total, total,
\* raw_score clamped to 0..100, final_score = min(raw_score, cap_applied).
C4_DerivedFields ==
    Scored =>
        LET d == result.deductions
        IN  /\ d.multiplied_total = d.segmentation_scaled + d.wireless + d.hygiene
            /\ d.total = d.perimeter + d.multiplied_total
            /\ result.raw_score =
                   (IF 100 - d.total < 0 THEN 0
                    ELSE IF 100 - d.total > 100 THEN 100 ELSE 100 - d.total)
            /\ result.final_score =
                   (IF result.raw_score <= result.cap_applied
                    THEN result.raw_score ELSE result.cap_applied)
            /\ result.raw_score \in 0..100
            /\ result.final_score \in 0..100

\* C4 witness: every rule triggered at the largest device bucket, total
\* deductions above 100
C4_Witness ==
    /\ Scored
    /\ answers = With(ALL_FAIL_ANSWERS, DEVICE_QID, "R_500_1000")
    /\ result.deductions.total > 100
    /\ result.raw_score = 0

\* C5: five gate results G1..G5 with caps 40, 50, 55, 65, 70; each fails
\* exactly on its condition; reasons are non-empty iff the gate failed; G1
\* has two reasons exactly when both of its conditions hold.
C5_Gates ==
    Scored =>
        LET g  == result.gates
            c1 == Get(answers, "C1_WAN_ADMIN_EXPOSURE") = "YES"
                      \/ Unknown(answers, "C1_WAN_ADMIN_EXPOSURE")
            c2 == Get(answers, "C2_REMOTE_ACCESS_METHOD") = "PORT_FORWARDING"
        IN  /\ Len(g) = 5
            /\ [i \in 1..5 |-> g[i].gate_id] = <<"G1", "G2", "G3", "G4", "G5">>
            /\ [i \in 1..5 |-> g[i].cap] = <<40, 50, 55, 65, 70>>
            /\ g[1].failed <=> (c1 \/ c2)
            /\ g[2].failed <=> (Get(answers, "D1_GUEST_INTERNAL_ACCESS") = "YES"
                                   \/ Unknown(answers, "D1_GUEST_INTERNAL_ACCESS"))
            /\ g[3].failed <=> (Get(answers, "D2_VLAN_SEPARATION") = "FLAT"
                                   \/ Unknown(answers, "D2_VLAN_SEPARATION"))
            /\ g[4].failed <=> (Get(answers, "F2_CONFIG_BACKUPS") = "NONE"
                                   \/ Unknown(answers, "F2_CONFIG_BACKUPS"))
            /\ g[5].failed <=> (Get(answers, "F3_LOGGING_EXISTS") = "NO"
                                   \/ Unknown(answers, "F3_LOGGING_EXISTS"))
            /\ \A i \in 1..5 : g[i].failed <=> (Len(g[i].reasons) > 0)
            /\ \A i \in 2..5 : Len(g[i].reasons) <= 1
            /\ (Len(g[1].reasons) = 2) <=> (c1 /\ c2)
            /\ Len(g[1].reasons) <= 2

\* C5 witness: G1 fails on both of its conditions while another gate passes
C5_Witness ==
    /\ Scored
    /\ Len(result.gates[1].reasons) = 2
    /\ \E i \in 2..5 : ~result.gates[i].failed

Ind(b) == IF b THEN 1 ELSE 0

\* the answer to q is v, or unknown
IsOrUnknown(a, q, v) == Get(a, q) = v \/ Unknown(a, q)

\* C6: each category deduction is the sum of the fixed points of the rules
\* its answers trigger, a function of the twelve scored answers alone.
C6_CategoryDeductions ==
    Scored =>
        LET d == result.deductions
            a == answers
        IN  /\ d.perimeter =
                   25 * Ind(IsOrUnknown(a, "C1_WAN_ADMIN_EXPOSURE", "YES"))
                   + 25 * Ind(Get(a, "C2_REMOTE_ACCESS_METHOD") = "PORT_FORWARDING")
                   + 10 * Ind(IsOrUnknown(a, "C3_ADMIN_MFA", "NO"))
            /\ d.segmentation =
                   (IF IsOrUnknown(a, "D2_VLAN_SEPARATION", "FLAT") THEN 25
                    ELSE IF Get(a, "D2_VLAN_SEPARATION") = "PARTIAL" THEN 10 ELSE 0)
                   + 10 * Ind(Get(a, "D3_IOT_WITH_FINANCE") = "YES")
            /\ d.wireless =
                   (IF IsOrUnknown(a, "E1_CORP_WIFI_SECURITY", "OPEN_OR_UNKNOWN") THEN 15
                    ELSE IF Get(a, "E1_CORP_WIFI_SECURITY") = "PSK" THEN 7 ELSE 0)
                   + 8 * Ind(IsOrUnknown(a, "E2_GUEST_CLIENT_ISOLATION", "NO"))
            /\ d.hygiene =
                   7 * Ind(IsOrUnknown(a, "F1_UNUSED_PORTS_RESTRICTED", "NO"))
                   + 15 * Ind(IsOrUnknown(a, "F2_CONFIG_BACKUPS", "NONE"))
                   + 15 * Ind(IsOrUnknown(a, "F3_LOGGING_EXISTS", "NO"))
                   + 7 * Ind(IsOrUnknown(a, "F4_FIRMWARE_UPDATES", "RARE"))

\* C6 witness: the two intermediate rules (PARTIAL, PSK) are triggered, D3
\* is unknown, and keys outside the twelve scored questions are present
C6_Witness ==
    /\ Scored
    /\ Get(answers, "D2_VLAN_SEPARATION") = "PARTIAL"
    /\ Unknown(answers, "D3_IOT_WITH_FINANCE")
    /\ result.deductions.segmentation = 10
    /\ result.deductions.hygiene = 44
    /\ DEVICE_QID \in DOMAIN answers

\* control identifiers of the 13 deduction rules (the guest-isolation control
\* carries no deduction and is not among them)
TableControls ==
    { "CTRL_PERIMETER_WAN_ADMIN_EXPOSURE", "CTRL_PERIMETER_PORT_FORWARDING",
      "CTRL_IDENTITY_ADMIN_MFA", "CTRL_SEGMENTATION_FLAT_NETWORK",
      "CTRL_SEGMENTATION_PARTIAL", "CTRL_SEGMENTATION_IOT_WITH_CRITICAL",
      "CTRL_WIRELESS_OPEN_OR_UNKNOWN", "CTRL_WIRELESS_PSK_ONLY",
      "CTRL_WIRELESS_GUEST_CLIENT_ISOLATION", "CTRL_HYGIENE_UNUSED_PORTS",
      "CTRL_OPERATIONS_NO_BACKUPS", "CTRL_OPERATIONS_NO_LOGGING",
      "CTRL_OPERATIONS_FIRMWARE_RARE" }

VlanPair == {"CTRL_SEGMENTATION_FLAT_NETWORK", "CTRL_SEGMENTATION_PARTIAL"}

WifiPair == {"CTRL_WIRELESS_OPEN_OR_UNKNOWN", "CTRL_WIRELESS_PSK_ONLY"}

RulePairs == {p \in SUBSET TableControls : Cardinality(p) = 2}

BothTriggered(r, pair) == pair \subseteq Range(r.failed_controls)

\* some answer mapping of the input space triggers both rules of the pair
CanCoOccur(pair) ==
    \E i \in DOMAIN BaseAnswers : \E S \in DeviationSets : \E f \in Choices(S) :
        BothTriggered(score_assessment(Override(BaseAnswers[i], f)), pair)

\* the all-failing answers with any values for D2 and E1
CoOccurrenceInputs ==
    {Override(ALL_FAIL_ANSWERS, f) :
        f \in Choices({"D2_VLAN_SEPARATION", "E1_CORP_WIFI_SECURITY"})}

\* the sets of controls those mappings trigger
CoOccurrenceSets ==
    {Range(score_assessment(a).failed_controls) : a \in CoOccurrenceInputs}

\* every pair of the 13 rules but the two exclusive ones is triggered together
OtherPairsCoOccur ==
    \A pair \in RulePairs \ {VlanPair, WifiPair} :
        \E triggered \in CoOccurrenceSets : pair \subseteq triggered

\* C7 as stated: VLAN-flat and VLAN-partial are never triggered together,
\* and every other pair of the 13 rules is triggered together by some answers.
C7_OnlyVlanPairExclusive ==
    Scored =>
        /\ ~BothTriggered(result, VlanPair)
        /\ \A pair \in RulePairs \ {VlanPair} : CanCoOccur(pair)

\* C7 amended: VLAN-flat/VLAN-partial and Wi-Fi-open/Wi-Fi-PSK are each never
\* triggered together; every other pair of the 13 rules is triggered together
\* by some answers.
C7_ExclusivePairs ==
    Scored =>
        /\ ~BothTriggered(result, VlanPair)
        /\ ~BothTriggered(result, WifiPair)
        /\ OtherPairsCoOccur

\* C7 witness: the two intermediate rules, VLAN-partial and Wi-Fi-PSK, are
\* triggered together, each without its exclusive partner
C7_Witness ==
    /\ Scored
    /\ BothTriggered(result, {"CTRL_SEGMENTATION_PARTIAL", "CTRL_WIRELESS_PSK_ONLY"})
    /\ "CTRL_SEGMENTATION_FLAT_NETWORK" \notin Range(result.failed_controls)
    /\ "CTRL_WIRELESS_OPEN_OR_UNKNOWN" \notin Range(result.failed_controls)

HasNote(r, text) == \E i \in 1..Len(r.notes) : r.notes[i].text = text

\* C8: the multiplier is 1.0, 1.1, 1.25, 1.5 for the four buckets; for an
\* unrecognized or missing A1_DEVICE_COUNT it is 1.1 and notes holds the
\* default-multiplier note.
C8_DeviceMultiplier ==
    Scored =>
        LET b == Get(answers, DEVICE_QID)
            present == DEVICE_QID \in DOMAIN answers
        IN  /\ (present /\ b = "LT_50") =>
                   result.device_multiplier = FloatLiteral(10, 10)
            /\ (present /\ b = "R_50_200") =>
                   result.device_multiplier = FloatLiteral(11, 10)
            /\ (present /\ b = "R_200_500") =>
                   result.device_multiplier = FloatLiteral(125, 100)
            /\ (present /\ b = "R_500_1000") =>
                   result.device_multiplier = FloatLiteral(15, 10)
            /\ (~present \/ b \notin {"LT_50", "R_50_200", "R_200_500", "R_500_1000"}) =>
                   /\ result.device_multiplier = FloatLiteral(11, 10)
                   /\ HasNote(result, DEFAULT_BUCKET_NOTE)

Unscaled(r) ==
    [perimeter |-> r.deductions.perimeter, segmentation |-> r.deductions.segmentation,
     wireless |-> r.deductions.wireless, hygiene |-> r.deductions.hygiene]

\* the buckets whose multiplier differs from the one the result was scored with
OtherBuckets(r) ==
    {b \in DOMAIN DEVICE_MULTIPLIER : DEVICE_MULTIPLIER[b] # r.device_multiplier}

\* C9 as stated: changing only the device bucket to one with a different
\* multiplier changes segmentation_scaled and multiplied_total and leaves
\* perimeter and the raw segmentation, wireless and hygiene deductions unchanged.
C9_BucketAlwaysChangesScaled ==
    Scored =>
        \A b \in OtherBuckets(result) :
            LET other == score_assessment(With(answers, DEVICE_QID, b))
            IN  /\ other.deductions.segmentation_scaled
                       # result.deductions.segmentation_scaled
                /\ other.deductions.multiplied_total
                       # result.deductions.multiplied_total
                /\ Unscaled(other) = Unscaled(result)

\* C9 amended: changing only the device bucket to one with a different
\* multiplier leaves perimeter and the raw segmentation, wireless and hygiene
\* deductions unchanged; it changes segmentation_scaled and multiplied_total
\* when the raw segmentation deduction is non-zero, and leaves both unchanged
\* (segmentation_scaled = 0) when it is zero.
C9_BucketScope ==
    Scored =>
        \A b \in OtherBuckets(result) :
            LET other == score_assessment(With(answers, DEVICE_QID, b))
                same  == /\ other.deductions.segmentation_scaled
                                = result.deductions.segmentation_scaled
                         /\ other.deductions.multiplied_total
                                = result.deductions.multiplied_total
                differ == /\ other.deductions.segmentation_scaled
                                 # result.deductions.segmentation_scaled
                          /\ other.deductions.multiplied_total
                                 # result.deductions.multiplied_total
            IN  /\ Unscaled(other) = Unscaled(result)
                /\ result.deductions.segmentation > 0 => differ
                /\ result.deductions.segmentation = 0 =>
                       same /\ result.deductions.segmentation_scaled = 0

\* C9 witness: a result with non-zero perimeter and segmentation deductions,
\* scored with a multiplier other than 1.0 and 1.1
C9_Witness ==
    /\ Scored
    /\ result.deductions.perimeter > 0
    /\ result.deductions.segmentation > 0
    /\ result.deductions.segmentation_scaled > result.deductions.segmentation
    /\ result.device_multiplier # DEFAULT_MULTIPLIER

\* a required scored question is missing: its key is absent or mapped to None
MissingQids(a) == {q \in ScoredQids : q \notin DOMAIN a \/ a[q] = PyNone}

PositionOf(q) == CHOOSE k \in 1..Len(REQUIRED_SCORED_QIDS) : REQUIRED_SCORED_QIDS[k] = q

WithoutNotes(r) == [f \in DOMAIN r \ {"notes"} |-> r[f]]

\* A1_DEVICE_COUNT is absent or names a bucket of DEVICE_MULTIPLIER
BucketRecognized(a) ==
    DEVICE_QID \in DOMAIN a =>
        a[DEVICE_QID] \in {"LT_50", "R_50_200", "R_200_500", "R_500_1000"}

\* C10: a missing scored question scores as NOT_SURE in every field but
\* notes; with a recognized bucket, notes is empty when no scored question
\* is missing, and otherwise is one note listing exactly the missing
\* identifiers in REQUIRED_SCORED_QIDS order.
C10_MissingAsNotSure ==
    Scored =>
        /\ \A q \in MissingQids(answers) :
               WithoutNotes(result)
                   = WithoutNotes(score_assessment(With(answers, q, "NOT_SURE")))
        /\ BucketRecognized(answers) =>
               IF MissingQids(answers) = {}
               THEN result.notes = <<>>
               ELSE /\ Len(result.notes) = 1
                    /\ result.notes[1].text = MISSING_NOTE
                    /\ LET ids == result.notes[1].ids
                       IN  /\ Range(ids) = MissingQids(answers)
                           /\ \A i, j \in 1..Len(ids) :
                                  i < j => PositionOf(ids[i]) < PositionOf(ids[j])

\* C10 witness: one scored question is missing and named by the single note,
\* while another is answered NOT_SURE explicitly
C10_Witness ==
    /\ Scored
    /\ BucketRecognized(answers)
    /\ Cardinality(MissingQids(answers)) = 1
    /\ Len(result.notes) = 1
    /\ \E q \in ScoredQids : q \in DOMAIN answers /\ answers[q] = "NOT_SURE"

(***************************************************************************)
(* The last step of score_assessment on its own: from a clamped raw score  *)
(* and a cap to final_score and grade (scoring.py lines 281-282).          *)
(***************************************************************************)
\* the caps DetermineCap can return
PossibleCaps == {GATE_CAPS[g] : g \in DOMAIN GATE_CAPS} \cup {100}

InitGrade ==
    /\ answers = EMPTY_ANSWERS
    /\ fixes = NoResult
    /\ previous = NoResult
    /\ data = NoResult
    /\ session = NoResult
    /\ \E raw \in 0..100 : \E cap \in PossibleCaps :
           result = [raw_score |-> raw, cap_applied |-> cap]
    /\ pc = "capped"

\* final_score = min(raw_score, cap); grade = grade_from_score(final_score)
GradeFinalScore ==
    /\ pc = "capped"
    /\ LET final_score == Min(result.raw_score, result.cap_applied)
       IN  result' = [raw_score   |-> result.raw_score,
                      cap_applied |-> result.cap_applied,
                      final_score |-> final_score,
                      grade       |-> grade_from_score(final_score)]
    /\ pc' = "graded"
    /\ UNCHANGED <<answers, fixes, previous, data, session>>

NextGrade == GradeFinalScore

SpecGrade == InitGrade /\ [][NextGrade]_vars

Graded == pc = "graded"

\* A best .. F worst
GradeRank(g) ==
    CASE g = "A" -> 0 [] g = "B" -> 1 [] g = "C" -> 2 [] g = "D" -> 3 [] g = "F" -> 4

\* C11: the grade is fixed by final_score with inclusive lower bounds
\* (A >= 85, B 70..84, C 55..69, D 40..54, F below 40), so no lower
\* final_score has a better grade.
C11_GradeBands ==
    Graded =>
        LET fs == result.final_score
            g  == result.grade
        IN  /\ g = "A" <=> fs >= 85
            /\ g = "B" <=> fs \in 70..84
            /\ g = "C" <=> fs \in 55..69
            /\ g = "D" <=> fs \in 40..54
            /\ g = "F" <=> fs < 40
            /\ \A lower \in 0..fs :
                   GradeRank(grade_from_score(lower)) >= GradeRank(g)

\* C11 witness: a final score on a lower bound, reached through the cap
C11_Witness ==
    /\ Graded
    /\ result.final_score = 70
    /\ result.raw_score > 70
    /\ result.grade = "B"

\* the fourteen controls in rule-evaluation order
ControlOrder ==
    << "CTRL_PERIMETER_WAN_ADMIN_EXPOSURE", "CTRL_PERIMETER_PORT_FORWARDING",
       "CTRL_IDENTITY_ADMIN_MFA", "CTRL_SEGMENTATION_FLAT_NETWORK",
       "CTRL_SEGMENTATION_PARTIAL", "CTRL_SEGMENTATION_GUEST_NOT_ISOLATED",
       "CTRL_SEGMENTATION_IOT_WITH_CRITICAL", "CTRL_WIRELESS_OPEN_OR_UNKNOWN",
       "CTRL_WIRELESS_PSK_ONLY", "CTRL_WIRELESS_GUEST_CLIENT_ISOLATION",
       "CTRL_HYGIENE_UNUSED_PORTS", "CTRL_OPERATIONS_NO_BACKUPS",
       "CTRL_OPERATIONS_NO_LOGGING", "CTRL_OPERATIONS_FIRMWARE_RARE" >>

\* the rule of control c is triggered by the answers a
RuleTriggered(a, c) ==
    CASE c = "CTRL_PERIMETER_WAN_ADMIN_EXPOSURE" ->
             IsOrUnknown(a, "C1_WAN_ADMIN_EXPOSURE", "YES")
      [] c = "CTRL_PERIMETER_PORT_FORWARDING" ->
             Get(a, "C2_REMOTE_ACCESS_METHOD") = "PORT_FORWARDING"
      [] c = "CTRL_IDENTITY_ADMIN_MFA" ->
             IsOrUnknown(a, "C3_ADMIN_MFA", "NO")
      [] c = "CTRL_SEGMENTATION_FLAT_NETWORK" ->
             IsOrUnknown(a, "D2_VLAN_SEPARATION", "FLAT")
      [] c = "CTRL_SEGMENTATION_PARTIAL" ->
             Get(a, "D2_VLAN_SEPARATION") = "PARTIAL"
      [] c = "CTRL_SEGMENTATION_GUEST_NOT_ISOLATED" ->
             IsOrUnknown(a, "D1_GUEST_INTERNAL_ACCESS", "YES")
      [] c = "CTRL_SEGMENTATION_IOT_WITH_CRITICAL" ->
             Get(a, "D3_IOT_WITH_FINANCE") = "YES"
      [] c = "CTRL_WIRELESS_OPEN_OR_UNKNOWN" ->
             IsOrUnknown(a, "E1_CORP_WIFI_SECURITY", "OPEN_OR_UNKNOWN")
      [] c = "CTRL_WIRELESS_PSK_ONLY" ->
             Get(a, "E1_CORP_WIFI_SECURITY") = "PSK"
      [] c = "CTRL_WIRELESS_GUEST_CLIENT_ISOLATION" ->
             IsOrUnknown(a, "E2_GUEST_CLIENT_ISOLATION", "NO")
      [] c = "CTRL_HYGIENE_UNUSED_PORTS" ->
             IsOrUnknown(a, "F1_UNUSED_PORTS_RESTRICTED", "NO")
      [] c = "CTRL_OPERATIONS_NO_BACKUPS" ->
             IsOrUnknown(a, "F2_CONFIG_BACKUPS", "NONE")
      [] c = "CTRL_OPERATIONS_NO_LOGGING" ->
             IsOrUnknown(a, "F3_LOGGING_EXISTS", "NO")
      [] c = "CTRL_OPERATIONS_FIRMWARE_RARE" ->
             IsOrUnknown(a, "F4_FIRMWARE_UPDATES", "RARE")

ControlRank(c) == CHOOSE k \in 1..Len(ControlOrder) : ControlOrder[k] = c

\* s lists distinct elements of ControlOrder in the order of ControlOrder
InControlOrder(s) ==
    \A i \in 1..Len(s) :
        /\ \E k \in 1..Len(ControlOrder) : ControlOrder[k] = s[i]
        /\ \A j \in (i + 1)..Len(s) :
               ControlRank(s[i]) < ControlRank(s[j])

\* C12: failed_controls has no duplicates, holds a control exactly when its
\* rule triggered, in rule-evaluation order; the guest-isolation control is
\* present exactly when gate G2 failed and adds nothing to the deductions.
C12_FailedControls ==
    Scored =>
        LET fc == result.failed_controls
            guest == "CTRL_SEGMENTATION_GUEST_NOT_ISOLATED"
        IN  /\ Cardinality(Range(fc)) = Len(fc)
            /\ \A k \in 1..Len(ControlOrder) :
                   ControlOrder[k] \in Range(fc)
                       <=> RuleTriggered(answers, ControlOrder[k])
            /\ InControlOrder(fc)
            /\ guest \in Range(fc) <=> result.gates[2].failed
            /\ result.gates[2].gate_id = "G2"
            /\ result.deductions.segmentation =
                   (IF "CTRL_SEGMENTATION_FLAT_NETWORK" \in Range(fc) THEN 25
                    ELSE IF "CTRL_SEGMENTATION_PARTIAL" \in Range(fc) THEN 10
                    ELSE 0)
                   + (IF "CTRL_SEGMENTATION_IOT_WITH_CRITICAL" \in Range(fc)
                      THEN 10 ELSE 0)

\* C12 witness: the guest-isolation control sits between a VLAN control and
\* the IoT control, after a perimeter control and before a wireless one
C12_Witness ==
    /\ Scored
    /\ \E i \in 2..(Len(result.failed_controls) - 3) :
           /\ result.failed_controls[i] = "CTRL_SEGMENTATION_PARTIAL"
           /\ result.failed_controls[i + 1] = "CTRL_SEGMENTATION_GUEST_NOT_ISOLATED"
           /\ result.failed_controls[i + 2] = "CTRL_SEGMENTATION_IOT_WITH_CRITICAL"
           /\ result.failed_controls[i + 3] = "CTRL_WIRELESS_OPEN_OR_UNKNOWN"
    /\ result.deductions.segmentation = 20

\* the binary64 m is exactly the fraction num/den
FloatEquals(m, num, den) ==
    MulSmall(m.n, den, 0) = [i \in 1..m.scale |-> 0] \o ToBits(num)

\* the answers are those of scenario A
ScenarioA ==
    /\ DOMAIN answers = AllQids \ {UNSCORED_QID}
    /\ answers["A1_DEVICE_COUNT"] = "R_200_500"
    /\ answers["C1_WAN_ADMIN_EXPOSURE"] = "YES"
    /\ answers["C2_REMOTE_ACCESS_METHOD"] = "PORT_FORWARDING"
    /\ answers["C3_ADMIN_MFA"] = "NO"
    /\ answers["D1_GUEST_INTERNAL_ACCESS"] = "YES"
    /\ answers["D2_VLAN_SEPARATION"] = "FLAT"
    /\ answers["D3_IOT_WITH_FINANCE"] = "YES"
    /\ answers["E1_CORP_WIFI_SECURITY"] = "OPEN_OR_UNKNOWN"
    /\ answers["E2_GUEST_CLIENT_ISOLATION"] = "NO"
    /\ answers["F1_UNUSED_PORTS_RESTRICTED"] = "NO"
    /\ answers["F2_CONFIG_BACKUPS"] = "NONE"
    /\ answers["F3_LOGGING_EXISTS"] = "NO"
    /\ answers["F4_FIRMWARE_UPDATES"] = "RARE"

\* C13: scenario A scores perimeter 60, segmentation 35 scaled by 1.25 to
\* 44, wireless 23, hygiene 44, multiplied total 111, total 171, raw score
\* 0, cap 40, final score 0, grade F.
C13_ScenarioAScore ==
    (Scored /\ ScenarioA) =>
        /\ result.deductions.perimeter = 60
        /\ result.deductions.segmentation = 35
        /\ FloatEquals(result.device_multiplier, 5, 4)
        /\ result.deductions.segmentation_scaled = 44
        /\ result.deductions.wireless = 23
        /\ result.deductions.hygiene = 44
        /\ result.deductions.multiplied_total = 111
        /\ result.deductions.total = 171
        /\ result.raw_score = 0
        /\ result.cap_applied = 40
        /\ result.final_score = 0
        /\ result.grade = "F"

\* C13 witness: scenario A has been scored
C13_Witness ==
    /\ Scored
    /\ ScenarioA
    /\ result.deductions.total > 100
    /\ result.raw_score = 0

AllGatesFailed(r) ==
    /\ Len(r.gates) = 5
    /\ \A i \in 1..5 : r.gates[i].failed

\* C14 as stated: in scenario A all five gates fail and failed_controls
\* holds 13 distinct control identifiers, the guest-isolation one included.
C14_ScenarioAThirteenControls ==
    (Scored /\ ScenarioA) =>
        /\ AllGatesFailed(result)
        /\ Cardinality(Range(result.failed_controls)) = 13
        /\ "CTRL_SEGMENTATION_GUEST_NOT_ISOLATED" \in Range(result.failed_controls)

\* C14, amended: in scenario A all five gates fail and failed_controls
\* holds 12 distinct control identifiers, the guest-isolation one included:
\* every control but the PARTIAL and PSK ones, which the FLAT and OPEN
\* rules exclude.
C14_ScenarioAControls ==
    (Scored /\ ScenarioA) =>
        /\ AllGatesFailed(result)
        /\ Len(result.failed_controls) = 12
        /\ Range(result.failed_controls) =
               Range(ControlOrder)
                   \ {"CTRL_SEGMENTATION_PARTIAL", "CTRL_WIRELESS_PSK_ONLY"}
        /\ "CTRL_SEGMENTATION_GUEST_NOT_ISOLATED" \in Range(result.failed_controls)

\* C14 witness: scenario A has been scored and every gate has a reason
C14_Witness ==
    /\ Scored
    /\ ScenarioA
    /\ \A i \in 1..Len(result.gates) : Len(result.gates[i].reasons) > 0
    /\ Len(result.failed_controls) > 0

\* the answers are those of scenario B: every scored question answered by a
\* catalog option that triggers no rule, fewer than 50 devices
ScenarioB ==
    /\ \A q \in ScoredQids :
           /\ q \in DOMAIN answers
           /\ answers[q] \in CatalogOptions(q) \ RuleOptions(q)
    /\ Get(answers, DEVICE_QID) = "LT_50"

\* C15: scenario B scores zero deductions in every category, no failed
\* gate, cap 100, raw and final score 100, grade A, no failed control, no
\* note, and generate_fix_blocks on that result returns three empty lists.
C15_ScenarioB ==
    (Resolved /\ ScenarioB) =>
        /\ \A c \in DOMAIN result.deductions : result.deductions[c] = 0
        /\ \A i \in 1..Len(result.gates) : ~result.gates[i].failed
        /\ result.cap_applied = 100
        /\ result.raw_score = 100
        /\ result.final_score = 100
        /\ result.grade = "A"
        /\ result.failed_controls = <<>>
        /\ result.notes = <<>>
        /\ fixes.gate_summaries = <<>>
        /\ fixes.critical_fixes = <<>>
        /\ fixes.recommended_fixes = <<>>

\* C15 witness: scenario B has been scored and resolved, five gates seen
C15_Witness ==
    /\ Resolved
    /\ ScenarioB
    /\ Len(result.gates) = 5
    /\ DOMAIN fixes = {"gate_summaries", "critical_fixes", "recommended_fixes"}

(***************************************************************************)
(* generate_fix_blocks on its own: called with any list of control         *)
(* identifiers (duplicates and identifiers outside the library included)   *)
(* and any list of gate dicts (keys missing, identifiers outside G1..G5).  *)
(***************************************************************************)
MaxControls == 3

MaxGates == 2

UNKNOWN_CONTROL == "CTRL_NOT_IN_LIBRARY"

UNKNOWN_GATE == "G9"

ControlIds == DOMAIN CONTROL_FIX_LIBRARY \cup {UNKNOWN_CONTROL}

\* the output of score_assessment_dict for the answers of run_local_test.py
ScenarioAResult == score_assessment(ALL_FAIL_ANSWERS)

\* gate dicts: each key present or missing
GateDicts ==
    LET ids    == {[gate_id |-> g] : g \in {"G1", "G4", UNKNOWN_GATE, ""}}
                      \cup {EMPTY_ANSWERS}
        flags  == {[failed |-> f] : f \in BOOLEAN} \cup {EMPTY_ANSWERS}
        detail == {[cap |-> 40, reasons |-> <<"reason one", "reason two">>],
                   EMPTY_ANSWERS}
    IN  {i @@ f @@ d : i \in ids, f \in flags, d \in detail}

InitResolver ==
    /\ answers = EMPTY_ANSWERS
    /\ fixes = NoResult
    /\ previous = NoResult
    /\ data = NoResult
    /\ session = NoResult
    /\ pc = "scored"
    /\ \/ \E n \in 0..MaxControls : \E fc \in [1..n -> ControlIds] :
              \E gs \in {<<>>, ScenarioAResult.gates} :
                  result = [failed_controls |-> fc, gates |-> gs]
       \/ \E n \in 0..MaxGates : \E gs \in [1..n -> GateDicts] :
              \E fc \in {<<>>, ScenarioAResult.failed_controls} :
                  result = [failed_controls |-> fc, gates |-> gs]

NextResolver == GenerateFixBlocks

SpecResolver == InitResolver /\ [][NextResolver]_vars

\* the summary the resolver is to emit for a failed gate g
ExpectedSummary(g) ==
    LET gid == Get(g, "gate_id")
        known == gid \in {"G1", "G2", "G3", "G4", "G5"}
    IN  [gate_id |-> gid,
         title   |-> IF known THEN GATE_EXEC_SUMMARIES[gid].title ELSE gid,
         summary |-> IF known THEN GATE_EXEC_SUMMARIES[gid].summary ELSE "",
         cap     |-> Get(g, "cap"),
         reasons |-> GetDefault(g, "reasons", <<>>)]

FailedFlagTrue(g) == "failed" \in DOMAIN g /\ g.failed

\* C16: gate_summaries holds, in input order, one summary for each gate
\* whose failed flag is true and none for the others; each carries the
\* gate's cap and reasons, the title and summary of GATE_EXEC_SUMMARIES, or
\* the bare identifier and an empty summary for an identifier outside
\* G1..G5.
C16_GateSummaries ==
    Resolved =>
        LET failed == SelectSeq(result.gates, FailedFlagTrue)
        IN  fixes.gate_summaries =
                [i \in 1..Len(failed) |-> ExpectedSummary(failed[i])]

AllFixes == fixes.critical_fixes \o fixes.recommended_fixes

FixIds(recs) == {recs[i].control_id : i \in 1..Len(recs)}

\* C17: critical_fixes and recommended_fixes together hold exactly one
\* record, the library's, for each distinct input identifier that is a key
\* of CONTROL_FIX_LIBRARY and none for any other; a record is in
\* critical_fixes iff its severity is critical or high; no identifier is in
\* both lists.
C17_FixPartition ==
    Resolved =>
        LET known == Range(result.failed_controls) \cap DOMAIN CONTROL_FIX_LIBRARY
        IN  /\ FixIds(AllFixes) = known
            /\ Len(AllFixes) = Cardinality(known)
            /\ \A i \in 1..Len(AllFixes) :
                   AllFixes[i] = CONTROL_FIX_LIBRARY[AllFixes[i].control_id]
            /\ \A i \in 1..Len(fixes.critical_fixes) :
                   fixes.critical_fixes[i].severity \in {"critical", "high"}
            /\ \A i \in 1..Len(fixes.recommended_fixes) :
                   fixes.recommended_fixes[i].severity \notin {"critical", "high"}
            /\ FixIds(fixes.critical_fixes) \cap FixIds(fixes.recommended_fixes) = {}

\* C17 witness: a list with a library identifier given twice and an
\* identifier outside the library has produced one recommended record
C17_Witness ==
    /\ Resolved
    /\ Len(result.failed_controls) = 3
    /\ result.failed_controls[1] = result.failed_controls[2]
    /\ result.failed_controls[3] = UNKNOWN_CONTROL
    /\ fixes.critical_fixes = <<>>
    /\ Len(fixes.recommended_fixes) = 1

\* the sort key of a fix record, as the claim gives it
SeverityRankOf(rec) ==
    CASE rec.severity = "critical" -> 0
      [] rec.severity = "high" -> 1
      [] rec.severity = "medium" -> 2
      [] OTHER -> 3

GateRankOf(rec) == IF rec.gate \in {"G1", "G2", "G3", "G4", "G5"} THEN 0 ELSE 1

\* the key of r1 is below the key of r2
KeyBelow(r1, r2) ==
    \/ SeverityRankOf(r1) < SeverityRankOf(r2)
    \/ /\ SeverityRankOf(r1) = SeverityRankOf(r2)
       /\ \/ GateRankOf(r1) < GateRankOf(r2)
          \/ /\ GateRankOf(r1) = GateRankOf(r2)
             /\ StrLess(r1.control_id, r2.control_id)

Ascending(recs) ==
    \A i, j \in 1..Len(recs) : i < j => KeyBelow(recs[i], recs[j])

\* C18: critical_fixes and recommended_fixes are each ascending in the key
\* (severity rank, gate rank, control identifier), and every record of
\* critical_fixes is below every record of recommended_fixes in that key.
C18_FixOrder ==
    Resolved =>
        /\ Ascending(fixes.critical_fixes)
        /\ Ascending(fixes.recommended_fixes)
        /\ \A i \in 1..Len(fixes.critical_fixes) :
               \A j \in 1..Len(fixes.recommended_fixes) :
                   KeyBelow(fixes.critical_fixes[i], fixes.recommended_fixes[j])

\* C18 witness: a gate-owned record precedes a record without gate whose
\* identifier is the smaller string, and input order was not key order
C18_Witness ==
    /\ Resolved
    /\ Len(result.failed_controls) = 3
    /\ result.failed_controls[1] = "CTRL_WIRELESS_PSK_ONLY"
    /\ \E i \in 1..(Len(fixes.critical_fixes) - 1) :
           /\ fixes.critical_fixes[i].control_id = "CTRL_SEGMENTATION_PARTIAL"
           /\ fixes.critical_fixes[i + 1].control_id = "CTRL_SEGMENTATION_IOT_WITH_CRITICAL"
    /\ Len(fixes.recommended_fixes) = 1

Reverse(s) == [i \in 1..Len(s) |-> s[Len(s) + 1 - i]]

\* the distinct identifiers of s in one fixed order
Canonical(s) ==
    LET InS(c) == c \in Range(s)
    IN  SelectSeq(<<UNKNOWN_CONTROL>> \o Reverse(ControlIdsAscending), InS)

FixLists(f) == <<f.critical_fixes, f.recommended_fixes>>

\* C19: no fix block is returned twice, and the two fix lists are those of
\* every other list with the same set of identifiers: the list of its
\* distinct identifiers in a fixed order, its reverse, and the list with
\* every entry repeated.
C19_OrderAndDuplicatesIrrelevant ==
    Resolved =>
        LET fc == result.failed_controls
        IN  /\ \A i, j \in 1..Len(AllFixes) :
                   AllFixes[i].control_id = AllFixes[j].control_id => i = j
            /\ FixLists(fixes) = FixLists(generate_fix_blocks(Canonical(fc), <<>>))
            /\ FixLists(fixes) = FixLists(generate_fix_blocks(Reverse(fc) \o fc, <<>>))

\* C19 witness: a list with a duplicate, not in key order, has been resolved
C19_Witness ==
    /\ Resolved
    /\ Len(result.failed_controls) = 3
    /\ result.failed_controls[1] = result.failed_controls[3]
    /\ result.failed_controls[1] = "CTRL_OPERATIONS_NO_LOGGING"
    /\ result.failed_controls[2] = "CTRL_IDENTITY_ADMIN_MFA"
    /\ Len(fixes.critical_fixes) = 2

\* the multipliers as the decimal fractions <<numerator, denominator>>
DecimalMultiplier ==
    SetToFn({ <<"LT_50", <<1, 1>>>>, <<"R_50_200", <<11, 10>>>>,
              <<"R_200_500", <<5, 4>>>>, <<"R_500_1000", <<3, 2>>>> })

\* raw * num / den rounded to the nearest integer, ties to the even one
HalfEven(raw, frac) ==
    LET q == (raw * frac[1]) \div frac[2]
        r == (raw * frac[1]) % frac[2]
    IN  IF 2 * r < frac[2] THEN q
        ELSE IF 2 * r > frac[2] THEN q + 1
        ELSE IF q % 2 = 0 THEN q ELSE q + 1

SegmentationDeductions == {0, 10, 20, 25, 35}

\* every producible deduction under every multiplier of the table
ScalingTableHalfEven ==
    \A raw \in SegmentationDeductions : \A b \in DOMAIN DEVICE_MULTIPLIER :
        /\ ScaleSegmentation(raw, DEVICE_MULTIPLIER[b]) = HalfEven(raw, DecimalMultiplier[b])
        /\ ScaleSegmentation(raw, DEVICE_MULTIPLIER[b]) >= raw

ScalingExamples ==
    /\ ScaleSegmentation(10, DEVICE_MULTIPLIER["R_200_500"]) = 12
    /\ ScaleSegmentation(35, DEVICE_MULTIPLIER["R_50_200"]) = 38
    /\ ScaleSegmentation(25, DEVICE_MULTIPLIER["R_500_1000"]) = 38
    /\ ScaleSegmentation(35, DEVICE_MULTIPLIER["R_500_1000"]) = 52

\* C20: the raw segmentation deduction is 0, 10, 20, 25 or 35, and for each
\* of them and each multiplier 1.0, 1.1, 1.25, 1.5 segmentation_scaled is
\* raw x multiplier rounded to the nearest integer, ties to even
\* (10 x 1.25 -> 12, 35 x 1.1 -> 38, 25 x 1.5 -> 38, 35 x 1.5 -> 52), hence
\* never below raw.
C20_HalfEvenScaling ==
    /\ ScalingTableHalfEven
    /\ ScalingExamples
    /\ Scored =>
           LET d == result.deductions
               bucket == GetDefault(answers, DEVICE_QID, "R_50_200")
               frac == GetDefault(DecimalMultiplier, bucket, <<11, 10>>)
           IN  /\ d.segmentation \in SegmentationDeductions
               /\ d.segmentation_scaled = HalfEven(d.segmentation, frac)
               /\ d.segmentation_scaled >= d.segmentation

\* C20 witness: a tie (35 x 1.5 = 52.5) has been scaled down to the even 52
C20_Witness ==
    /\ Scored
    /\ Get(answers, DEVICE_QID) = "R_500_1000"
    /\ result.deductions.segmentation = 35
    /\ result.deductions.segmentation_scaled = 52

\* the identifiers of the gates that failed in a score breakdown
FailedGateIds(r) == {r.gates[i].gate_id : i \in {k \in 1..Len(r.gates) : r.gates[k].failed}}

SummarisedGateIds(f) == {f.gate_summaries[i].gate_id : i \in 1..Len(f.gate_summaries)}

\* C21: every fix block returned for a score breakdown that has a gate names
\* a gate that failed in that breakdown, one with a gate summary.
C21_FixGateFailed ==
    Resolved =>
        \A i \in 1..Len(AllFixes) :
            AllFixes[i].gate # PyNone =>
                /\ AllFixes[i].gate \in FailedGateIds(result)
                /\ AllFixes[i].gate \in SummarisedGateIds(fixes)

\* C22: every control of failed_controls has its record in the fix lists,
\* so their lengths add up to the length of failed_controls, and every
\* failed gate has a record of its own in critical_fixes.
C22_NoControlDropped ==
    Resolved =>
        /\ Range(result.failed_controls) \subseteq DOMAIN CONTROL_FIX_LIBRARY
        /\ Len(fixes.critical_fixes) + Len(fixes.recommended_fixes)
               = Len(result.failed_controls)
        /\ FixIds(AllFixes) = Range(result.failed_controls)
        /\ \A g \in FailedGateIds(result) :
               \E i \in 1..Len(fixes.critical_fixes) : fixes.critical_fixes[i].gate = g

\* C22 witness: gates G4 and G5, whose records are of high severity, failed
\* along with controls that no gate owns
C22_Witness ==
    /\ Resolved
    /\ {"G4", "G5"} \subseteq FailedGateIds(result)
    /\ Len(fixes.recommended_fixes) > 0
    /\ Len(result.failed_controls) > 4

(***************************************************************************)
(* score_assessment applied twice: to an answer mapping, and again after   *)
(* one of its keys was set to another value or removed.                    *)
(***************************************************************************)
MaxContextDeviations == 1

ContextDeviationSets == {T \in SUBSET AllQids : Cardinality(T) <= MaxContextDeviations}

InitMonotone ==
    /\ \E i \in DOMAIN BaseAnswers : \E S \in ContextDeviationSets :
           \E f \in Choices(S) : answers = Override(BaseAnswers[i], f)
    /\ result = NoResult
    /\ fixes = NoResult
    /\ previous = NoResult
    /\ data = NoResult
    /\ session = NoResult
    /\ pc = "start"

\* one answer is changed and the assessment is scored again
ChangeAnswer ==
    /\ pc = "scored"
    /\ \E q \in ScoredQids \cup {DEVICE_QID} : \E v \in InputValues(q) :
           answers' = Override(answers, [k \in {q} |-> v])
    /\ answers' # answers
    /\ previous' = [answers |-> answers, result |-> result]
    /\ result' = score_assessment(answers')
    /\ pc' = "rescored"
    /\ UNCHANGED <<fixes, data, session>>

NextMonotone == ScoreAssessment \/ ChangeAnswer

SpecMonotone == InitMonotone /\ [][NextMonotone]_vars

Rescored == pc = "rescored"

\* the points of the rule that question q triggers under answers a
\* (0 for the guest-isolation rule), -1 when it triggers none
RulePointsOf(a, q) ==
    LET OnUnknownOr(v, points) == IF IsOrUnknown(a, q, v) THEN points ELSE -1
        On(v, points) == IF Get(a, q) = v THEN points ELSE -1
    IN  CASE q = "C1_WAN_ADMIN_EXPOSURE" -> OnUnknownOr("YES", 25)
          [] q = "C2_REMOTE_ACCESS_METHOD" -> On("PORT_FORWARDING", 25)
          [] q = "C3_ADMIN_MFA" -> OnUnknownOr("NO", 10)
          [] q = "D1_GUEST_INTERNAL_ACCESS" -> OnUnknownOr("YES", 0)
          [] q = "D2_VLAN_SEPARATION" ->
                 IF IsOrUnknown(a, q, "FLAT") THEN 25 ELSE On("PARTIAL", 10)
          [] q = "D3_IOT_WITH_FINANCE" -> On("YES", 10)
          [] q = "E1_CORP_WIFI_SECURITY" ->
                 IF IsOrUnknown(a, q, "OPEN_OR_UNKNOWN") THEN 15 ELSE On("PSK", 7)
          [] q = "E2_GUEST_CLIENT_ISOLATION" -> OnUnknownOr("NO", 8)
          [] q = "F1_UNUSED_PORTS_RESTRICTED" -> OnUnknownOr("NO", 7)
          [] q = "F2_CONFIG_BACKUPS" -> OnUnknownOr("NONE", 15)
          [] q = "F3_LOGGING_EXISTS" -> OnUnknownOr("NO", 15)
          [] q = "F4_FIRMWARE_UPDATES" -> OnUnknownOr("RARE", 7)

\* the key whose answer differs between the mappings a and b
ChangedQid(a, b) ==
    CHOOSE q \in AllQids : Get(a, q) # Get(b, q) \/ (q \in DOMAIN a) # (q \in DOMAIN b)

\* the multiplier of answers a as a decimal fraction
DecimalMultiplierOf(a) ==
    GetDefault(DecimalMultiplier, GetDefault(a, DEVICE_QID, "R_50_200"), <<11, 10>>)

\* the change from previous.answers to answers sets a scored question to a
\* value that triggers a rule of equal or higher points
RiskRaised ==
    LET q == ChangedQid(previous.answers, answers)
    IN  /\ q \in ScoredQids
        /\ RulePointsOf(answers, q) >= 0
        /\ RulePointsOf(answers, q) >= RulePointsOf(previous.answers, q)

\* the change moves A1_DEVICE_COUNT to a bucket with a larger multiplier
BucketRaised ==
    LET old == DecimalMultiplierOf(previous.answers)
        new == DecimalMultiplierOf(answers)
    IN  /\ ChangedQid(previous.answers, answers) = DEVICE_QID
        /\ Get(answers, DEVICE_QID) \in DOMAIN DecimalMultiplier
        /\ new[1] * old[2] > old[1] * new[2]

\* C23: setting one scored answer to a value that triggers a rule of equal
\* or higher points never raises final_score or cap_applied and never
\* lowers a deduction; a bucket with a larger multiplier never raises
\* final_score.
C23_MonotoneInRisk ==
    Rescored =>
        /\ RiskRaised =>
               /\ result.final_score <= previous.result.final_score
               /\ result.cap_applied <= previous.result.cap_applied
               /\ \A c \in DOMAIN result.deductions :
                      result.deductions[c] >= previous.result.deductions[c]
        /\ BucketRaised => result.final_score <= previous.result.final_score

\* C23 witness: PARTIAL was raised to FLAT: the score and the cap went down
C23_Witness ==
    /\ Rescored
    /\ RiskRaised
    /\ Get(previous.answers, "D2_VLAN_SEPARATION") = "PARTIAL"
    /\ Get(answers, "D2_VLAN_SEPARATION") = "FLAT"
    /\ result.final_score < previous.result.final_score
    /\ result.cap_applied < previous.result.cap_applied

(***************************************************************************)
(* app.py: the wizard session.  Each action is one user interaction and    *)
(* the script run it triggers.  `session` is st.session_state, `data` the  *)
(* loaded question catalog.  An optional value is <<>> for None and <<v>>  *)
(* for v.                                                                  *)
(***************************************************************************)
OptNone == <<>>

OptSome(v) == <<v>>

\* the sections of the catalog, each the identifiers of its questions
CatalogSections ==
    << <<"A1_DEVICE_COUNT">>,
       <<"C1_WAN_ADMIN_EXPOSURE", "D2_VLAN_SEPARATION">>,
       <<"F2_CONFIG_BACKUPS">> >>

CatalogQids == UNION {Range(CatalogSections[i]) : i \in 1..Len(CatalogSections)}

\* the option key that the label heuristics of set_demo_answers select for
\* each question: one of its options, never the "not sure" one
DemoSelections ==
    {d \in [CatalogQids -> UNION {CatalogOptions(q) : q \in CatalogQids}] :
        \A q \in CatalogQids : d[q] \in CatalogOptions(q) \ {"NOT_SURE"}}

\* init_state
InitialSession ==
    [section_index    |-> 0,
     answers          |-> EMPTY_ANSWERS,
     submitted        |-> FALSE,
     result           |-> OptNone,
     fixes            |-> OptNone,
     report_html      |-> OptNone,
     demo_mode        |-> FALSE,
     show_demo_notice |-> FALSE]

InitWizard ==
    /\ answers = EMPTY_ANSWERS
    /\ result = NoResult
    /\ fixes = NoResult
    /\ previous = NoResult
    /\ pc = "wizard"
    /\ \E d \in DemoSelections : data = [sections |-> CatalogSections, demo |-> d]
    /\ session = InitialSession

\* the report renderer: a document made from its three arguments
build_report_html(r, f, a) == [result |-> r, fixes |-> f, answers |-> a]

all_questions_answered(d, a) ==
    \A i \in 1..Len(d.sections) : \A q \in Range(d.sections[i]) : q \in DOMAIN a

\* set_demo_answers: answers, demo_mode, section_index and show_demo_notice
\* are assigned; submitted, result, fixes and report_html are not
set_demo_answers(d, s) ==
    [s EXCEPT !.answers = d.demo,
              !.demo_mode = TRUE,
              !.section_index = 0,
              !.show_demo_notice = TRUE]

\* reset_assessment
reset_assessment == InitialSession

\* the notice shown at the top of the run that follows the demo button
ShowNotice(s) == [s EXCEPT !.show_demo_notice = FALSE]

scoringVars == <<answers, result, fixes, previous, pc, data>>

\* sidebar button "Load demo answers", in either view
LoadDemoAnswers ==
    /\ session' = ShowNotice(set_demo_answers(data, session))
    /\ UNCHANGED scoringVars

\* sidebar button "Reset assessment", in either view
ResetAssessment ==
    /\ session' = reset_assessment
    /\ UNCHANGED scoringVars

\* button "Start a new assessment" of the results view
StartNewAssessment ==
    /\ session.submitted
    /\ session' = reset_assessment
    /\ UNCHANGED scoringVars

\* a radio of the current section is set: render_section stores its key
AnswerQuestion ==
    /\ ~session.submitted
    /\ \E q \in Range(data.sections[session.section_index + 1]) :
           \E key \in CatalogOptions(q) :
               session' = [session EXCEPT !.answers = With(session.answers, q, key)]
    /\ UNCHANGED scoringVars

\* button "Back", disabled on the first section
Back ==
    /\ ~session.submitted
    /\ session.section_index # 0
    /\ session' = [session EXCEPT !.section_index =
                       IF session.section_index - 1 < 0 THEN 0
                       ELSE session.section_index - 1]
    /\ UNCHANGED scoringVars

\* button "Next", shown on every section but the last
NextSection ==
    /\ ~session.submitted
    /\ session.section_index < Len(data.sections) - 1
    /\ session' = [session EXCEPT !.section_index =
                       Min(Len(data.sections) - 1, session.section_index + 1)]
    /\ UNCHANGED scoringVars

\* button "Generate Report" of the last section, disabled until
\* all_questions_answered
GenerateReport ==
    /\ ~session.submitted
    /\ session.section_index = Len(data.sections) - 1
    /\ all_questions_answered(data, session.answers)
    /\ LET r == score_assessment(session.answers)
           f == generate_fix_blocks(r.failed_controls, r.gates)
       IN  session' = [session EXCEPT
               !.result      = OptSome(r),
               !.fixes       = OptSome(f),
               !.report_html = OptSome(build_report_html(r, f, session.answers)),
               !.submitted   = TRUE]
    /\ UNCHANGED scoringVars

NextWizard ==
    \/ LoadDemoAnswers
    \/ ResetAssessment
    \/ StartNewAssessment
    \/ AnswerQuestion
    \/ Back
    \/ NextSection
    \/ GenerateReport

SpecWizard == InitWizard /\ [][NextWizard]_vars

====
